---- MODULE Spec2Model ----
(***************************************************************************)
(* Fixed-width transaction file manager (header / transactions / footer).  *)
(* The model follows the Python sources: validation.py (DataValidator),    *)
(* models.py (Header, Transaction, Footer), data_factory.py (DataFactory), *)
(* file_operations.py (FileOperations), configuration.py (Config) and      *)
(* cli.py (CLI).                                                           *)
(*                                                                         *)
(* Representation.  A Python str is a sequence of one-character strings.   *)
(* A Python float holding a money amount is the pair [u, c] standing for   *)
(* u + c/100 with c in 0..99 (u may be negative): every float the program  *)
(* computes from inputs with at most two fraction digits and below 2*10^9  *)
(* is within 10^-6 of such a value, so the ".2f" rendering is the exact    *)
(* one.  Inputs written with an exponent, "inf", "nan", "-0", underscores  *)
(* or more than two fraction digits are outside the modelled input sets.   *)
(***************************************************************************)
EXTENDS Integers, Sequences, FiniteSets, TLC

VARIABLES file_ops, lock_config, disk, last, steps

vars == <<file_ops, lock_config, disk, last, steps>>

(***************************************************************************)
(* Python str helpers                                                      *)
(***************************************************************************)
\* Bind(x, LAMBDA r : e) is e with r naming the value of x
Bind(x, F(_)) == F(x)

Digits == <<"0", "1", "2", "3", "4", "5", "6", "7", "8", "9">>

IsDigit(ch) == \E i \in 1..10 : Digits[i] = ch

DigitVal(ch) == (CHOOSE i \in 1..10 : Digits[i] = ch) - 1

\* the whitespace str.strip() removes (of the characters the model uses)
Whitespace == {" "}

Fill(n, ch) == [i \in 1..n |-> ch]

\* s[a:b] of Python, 0-based, clipped to the string
Slice(s, a, b) ==
    LET hi == IF b < Len(s) THEN b ELSE Len(s)
    IN  IF a >= hi THEN <<>> ELSE [i \in 1..(hi - a) |-> s[a + i]]

\* str.strip()
strip(s) ==
    IF \A i \in 1..Len(s) : s[i] \in Whitespace THEN <<>>
    ELSE LET lo == CHOOSE i \in 1..Len(s) :
                       /\ s[i] \notin Whitespace
                       /\ \A j \in 1..(i - 1) : s[j] \in Whitespace
             hi == CHOOSE i \in 1..Len(s) :
                       /\ s[i] \notin Whitespace
                       /\ \A j \in (i + 1)..Len(s) : s[j] \in Whitespace
         IN  [i \in 1..(hi - lo + 1) |-> s[lo + i - 1]]

\* str.rjust(width, fillchar)
rjust(s, width, ch) ==
    IF Len(s) >= width THEN s ELSE Fill(width - Len(s), ch) \o s

\* str.startswith(prefix)
startswith(s, prefix) ==
    /\ Len(s) >= Len(prefix)
    /\ \A i \in 1..Len(prefix) : s[i] = prefix[i]

AllDigits(s) == \A i \in 1..Len(s) : IsDigit(s[i])

RECURSIVE DigitsToNat(_)
DigitsToNat(s) ==
    IF Len(s) = 0 THEN 0
    ELSE DigitsToNat(Slice(s, 0, Len(s) - 1)) * 10 + DigitVal(s[Len(s)])

RECURSIVE NatToDigits(_)
NatToDigits(n) ==
    IF n < 10 THEN <<Digits[n + 1]>>
    ELSE NatToDigits(n \div 10) \o <<Digits[(n % 10) + 1]>>

(***************************************************************************)
(* Python values: a str, a float (money pair) or None                      *)
(***************************************************************************)
StrV(s) == [t |-> "str", s |-> s, u |-> 0, c |-> 0]

FloatV(m) == [t |-> "float", s |-> <<>>, u |-> m.u, c |-> m.c]

IntV(n) == [t |-> "int", s |-> <<>>, u |-> n, c |-> 0]

Money(u, c) == [u |-> u, c |-> c]

MNorm(u, cc) == Money(u + (cc \div 100), cc % 100)

MAdd(a, b) == MNorm(a.u + b.u, a.c + b.c)

MSub(a, b) == MNorm(a.u - b.u, a.c - b.c)

MNeg(m) == m.u < 0

\* |m| of a negative pair
MAbs(m) ==
    IF ~MNeg(m) THEN m
    ELSE IF m.c = 0 THEN Money(0 - m.u, 0) ELSE Money(0 - m.u - 1, 100 - m.c)

\* the text after an optional sign: digits [ "." digits ], at least one digit
IsDecimalBody(b) ==
    LET dots == {i \in 1..Len(b) : b[i] = "."}
    IN  /\ Cardinality(dots) <= 1
        /\ \A i \in 1..Len(b) : IsDigit(b[i]) \/ b[i] = "."
        /\ \E i \in 1..Len(b) : IsDigit(b[i])

Unsigned(t) ==
    IF Len(t) > 0 /\ t[1] \in {"-", "+"} THEN Slice(t, 1, Len(t)) ELSE t

\* the value of the digits [ "." digits ] text b, negated when neg
DecimalValue(b, neg) ==
    LET dots == {i \in 1..Len(b) : b[i] = "."}
        dot  == IF dots = {} THEN Len(b) + 1 ELSE CHOOSE i \in dots : TRUE
    IN  Bind(Money(DigitsToNat(Slice(b, 0, dot - 1)),
                   DigitsToNat(Slice(Slice(b, dot, Len(b)) \o <<"0", "0">>, 0, 2))),
             LAMBDA mag : IF neg THEN MSub(Money(0, 0), mag) ELSE mag)

\* float(str): [ok, m]; ok is FALSE where Python raises ValueError
ParseFloat(s) ==
    Bind(strip(s), LAMBDA t :
        Bind(Unsigned(t), LAMBDA b :
            IF ~IsDecimalBody(b) THEN [ok |-> FALSE, m |-> Money(0, 0)]
            ELSE [ok |-> TRUE, m |-> DecimalValue(b, t[1] = "-")]))

\* int(str): [ok, n]; ok is FALSE where Python raises ValueError
ParseInt(s) ==
    Bind(strip(s), LAMBDA t :
        Bind(Unsigned(t), LAMBDA b :
            IF Len(b) = 0 \/ ~AllDigits(b) THEN [ok |-> FALSE, n |-> 0]
            ELSE [ok |-> TRUE,
                  n  |-> IF t[1] = "-" THEN 0 - DigitsToNat(b) ELSE DigitsToNat(b)]))

\* float(value) for a value that is a str, an int or already a float
ToFloat(v) ==
    IF v.t \in {"float", "int"} THEN [ok |-> TRUE, m |-> Money(v.u, v.c)] ELSE ParseFloat(v.s)

TwoDigits(n) == <<Digits[(n \div 10) + 1], Digits[(n % 10) + 1]>>

\* f"{m:.2f}" of a value that is not negative
Unsigned2(a) == NatToDigits(a.u) \o <<".">> \o TwoDigits(a.c)

\* f"{m:.2f}"
Fixed2(m) == (IF MNeg(m) THEN <<"-">> ELSE <<>>) \o Unsigned2(MAbs(m))

\* f"{m:0{width}.2f}": zero padding goes between the sign and the digits
ZeroFixed2(m, width) ==
    IF MNeg(m) THEN <<"-">> \o rjust(Unsigned2(MAbs(m)), width - 1, "0")
    ELSE rjust(Unsigned2(m), width, "0")

\* f"{n:06d}" for n >= 0
ZeroInt(n, width) == rjust(NatToDigits(n), width, "0")

\* f"{n:0{width}d}": zero padding goes between the sign and the digits
ZeroSignedInt(n, width) ==
    IF n < 0 THEN <<"-">> \o rjust(NatToDigits(0 - n), width - 1, "0")
    ELSE rjust(NatToDigits(n), width, "0")

(***************************************************************************)
(* models.py: field metadata of the three dataclasses                      *)
(***************************************************************************)
None == <<>>

Some(x) == <<x>>

HeaderFields == <<"name", "surname", "patronymic", "address">>

TransactionFields == <<"counter", "amount", "currency", "reserved">>

FooterFields == <<"total_counter", "control_sum", "reserved">>

FieldsOf(kind) ==
    CASE kind = "header" -> HeaderFields
      [] kind = "transaction" -> TransactionFields
      [] kind = "footer" -> FooterFields

\* metadata={"fixed_width": .., "type": ..} of every field
Meta ==
    [header |-> [name       |-> [type |-> "str", width |-> 28],
                 surname    |-> [type |-> "str", width |-> 30],
                 patronymic |-> [type |-> "str", width |-> 30],
                 address    |-> [type |-> "str", width |-> 30]],
     transaction |-> [counter  |-> [type |-> "str", width |-> 6],
                      amount   |-> [type |-> "float", width |-> 12],
                      currency |-> [type |-> "str", width |-> 3],
                      reserved |-> [type |-> "str", width |-> 97]],
     footer |-> [total_counter |-> [type |-> "int", width |-> 6],
                 control_sum   |-> [type |-> "float", width |-> 12],
                 reserved      |-> [type |-> "str", width |-> 100]]]

HasField(kind, f) == \E i \in 1..Len(FieldsOf(kind)) : FieldsOf(kind)[i] = f

\* the default of _field_id, the record-type tag
TagOf(kind) ==
    CASE kind = "header" -> <<"0", "1">>
      [] kind = "transaction" -> <<"0", "2">>
      [] kind = "footer" -> <<"0", "3">>

\* the instance the dataclass constructor builds from the field values r:
\* _field_id is no constructor argument and takes its default
NewInstance(kind, r) ==
    CASE kind = "header" ->
            [_field_id |-> TagOf(kind), name |-> r.name, surname |-> r.surname,
             patronymic |-> r.patronymic, address |-> r.address]
      [] kind = "transaction" ->
            [_field_id |-> TagOf(kind), counter |-> r.counter, amount |-> r.amount,
             currency |-> r.currency, reserved |-> r.reserved]
      [] kind = "footer" ->
            [_field_id |-> TagOf(kind), total_counter |-> r.total_counter,
             control_sum |-> r.control_sum, reserved |-> r.reserved]

\* to_fixed_width_string of a record of the given kind; field_id returns
\* self._field_id
to_fixed_width_string(kind, r) ==
    CASE kind = "header" ->
            r._field_id \o r.name \o r.surname \o r.patronymic \o r.address
      [] kind = "transaction" ->
            r._field_id \o r.counter \o r.amount \o r.currency \o r.reserved
      [] kind = "footer" ->
            r._field_id \o r.total_counter \o r.control_sum \o r.reserved

(***************************************************************************)
(* validation.py: DataValidator                                            *)
(***************************************************************************)
ALLOWED_CURRENCIES ==
    {<<"U", "S", "D">>, <<"E", "U", "R">>, <<"G", "B", "P">>, <<"P", "L", "N">>}

LineLength == 120

MaxTransactions == 20000

Ok == [ok |-> TRUE, msg |-> "none"]

Err(m) == [ok |-> FALSE, msg |-> m]

\* int(value) of a float truncates toward zero
TruncNeg(m) == MNeg(m) /\ (m.u < -1 \/ m.c = 0)

validate_type(value, expected_type) ==
    CASE expected_type = "float" ->
            Bind(ToFloat(value), LAMBDA f :
                IF ~f.ok THEN Err("expected_float")
                ELSE IF MNeg(f.m) THEN Err("expected_float_negative")
                ELSE Ok)
      [] expected_type = "int" ->
            IF value.t \in {"float", "int"}
            THEN IF TruncNeg(Money(value.u, value.c)) THEN Err("expected_int_negative") ELSE Ok
            ELSE Bind(ParseInt(value.s), LAMBDA n :
                     IF ~n.ok THEN Err("expected_int")
                     ELSE IF n.n < 0 THEN Err("expected_int_negative")
                     ELSE Ok)
      [] OTHER ->
            IF value.t = "str" THEN Ok ELSE Err("type_mismatch")

\* FormatValue padding text on the right
FormatValueLeftJustified(value, width) ==
    IF value.t = "float" THEN ZeroFixed2(Money(value.u, value.c), width)
    ELSE IF Len(value.s) >= width THEN value.s
    ELSE value.s \o Fill(width - Len(value.s), " ")

\* FormatValue with text formatted by repr(): quotes around it
FormatValueQuoted(value, width) ==
    IF value.t = "int" THEN ZeroSignedInt(value.u, width)
    ELSE IF value.t = "float" THEN ZeroFixed2(Money(value.u, value.c), width)
    ELSE rjust(<<"'">> \o value.s \o <<"'">>, width, " ")

\* the formatted text, before the width check
FormatValue(value, width) ==
    IF value.t = "int" THEN ZeroSignedInt(value.u, width)
    ELSE IF value.t = "float" THEN ZeroFixed2(Money(value.u, value.c), width)
    ELSE rjust(value.s, width, " ")

\* validate_fixed_width clipping a longer text to the width
validate_fixed_widthTruncating(value, width) ==
    Bind(FormatValue(value, width), LAMBDA formatted_value :
        [ok |-> TRUE, msg |-> "none",
         s |-> IF Len(formatted_value) > width THEN Slice(formatted_value, 0, width)
               ELSE formatted_value])

validate_fixed_width(value, width) ==
    Bind(FormatValue(value, width), LAMBDA formatted_value :
        IF Len(formatted_value) > width
        THEN [ok |-> FALSE, msg |-> "exceeds_width", s |-> <<>>]
        ELSE [ok |-> TRUE, msg |-> "none", s |-> formatted_value])

\* type check then width check of one field; [ok, msg, s]
CheckField(kind, f, value) ==
    Bind(validate_type(value, Meta[kind][f].type), LAMBDA t :
        IF ~t.ok THEN [ok |-> FALSE, msg |-> t.msg, s |-> <<>>]
        ELSE validate_fixed_width(value, Meta[kind][f].width))

\* validate_field with _field_id declared like a text field of width 2
validate_fieldTagWritable(kind, instance, field_name, value) ==
    IF field_name = "_field_id" /\ value.t = "str" /\ Len(value.s) <= 2
    THEN [ok |-> TRUE, msg |-> "none",
          inst |-> [instance EXCEPT !._field_id = rjust(value.s, 2, " ")]]
    ELSE IF ~HasField(kind, field_name)
    THEN [ok |-> FALSE, msg |-> "exception", inst |-> instance]
    ELSE Bind(CheckField(kind, field_name, value), LAMBDA r :
             IF r.ok
             THEN [ok |-> TRUE, msg |-> "none",
                   inst |-> [instance EXCEPT ![field_name] = r.s]]
             ELSE [ok |-> FALSE, msg |-> r.msg, inst |-> instance])

\* validate_field: the record with the field overwritten by the formatted
\* text, or the error.  next(...) finds no field named field_id
\* (StopIteration) and _field_id has no metadata (KeyError): both leave
\* before setattr with an exception that is no DataValidationError
validate_field(kind, instance, field_name, value) ==
    IF ~HasField(kind, field_name)
    THEN [ok |-> FALSE, msg |-> "exception", inst |-> instance]
    ELSE Bind(CheckField(kind, field_name, value), LAMBDA r :
             IF r.ok
             THEN [ok |-> TRUE, msg |-> "none",
                   inst |-> [instance EXCEPT ![field_name] = r.s]]
             ELSE [ok |-> FALSE, msg |-> r.msg, inst |-> instance])

\* validate_dataclass over the fields from index i on, in declaration order
RECURSIVE ValidateFrom(_, _, _)
ValidateFrom(kind, data, i) ==
    IF i > Len(FieldsOf(kind)) THEN [ok |-> TRUE, msg |-> "none", inst |-> data]
    ELSE Bind(CheckField(kind, FieldsOf(kind)[i], data[FieldsOf(kind)[i]]), LAMBDA r :
             IF ~r.ok THEN [ok |-> FALSE, msg |-> r.msg, inst |-> data]
             ELSE ValidateFrom(kind, [data EXCEPT ![FieldsOf(kind)[i]] = r.s], i + 1))

\* data holds Python values; the result record holds the formatted texts
\* (_field_id is skipped by the loop and keeps its default)
validate_dataclass(kind, data) ==
    Bind(ValidateFrom(kind, data, 1), LAMBDA r :
        IF r.ok THEN [r EXCEPT !.inst = NewInstance(kind, r.inst)] ELSE r)

\* validate_file_structure with the line lengths checked before the count
validate_file_structureLengthFirst(lines) ==
    IF \E i \in 1..Len(lines) : Len(lines[i]) # LineLength THEN Err("line_length")
    ELSE IF Len(lines) < 3 THEN Err("min_lines")
    ELSE IF ~startswith(lines[1], TagOf("header"))
            \/ ~startswith(lines[Len(lines)], TagOf("footer")) THEN Err("start_end")
    ELSE IF \E i \in 2..(Len(lines) - 1) : ~startswith(lines[i], TagOf("transaction"))
         THEN Err("interior_tag")
    ELSE IF ~(1 <= Len(lines) - 2 /\ Len(lines) - 2 <= MaxTransactions) THEN Err("tx_count")
    ELSE Ok

\* validate_file_structure without the check of the line lengths
validate_file_structureAnyLength(lines) ==
    IF Len(lines) < 3 THEN Err("min_lines")
    ELSE IF ~startswith(lines[1], TagOf("header"))
            \/ ~startswith(lines[Len(lines)], TagOf("footer")) THEN Err("start_end")
    ELSE IF \E i \in 2..(Len(lines) - 1) : ~startswith(lines[i], TagOf("transaction"))
         THEN Err("interior_tag")
    ELSE IF ~(1 <= Len(lines) - 2 /\ Len(lines) - 2 <= MaxTransactions) THEN Err("tx_count")
    ELSE Ok

validate_file_structure(lines) ==
    IF Len(lines) < 3 THEN Err("min_lines")
    ELSE IF \E i \in 1..Len(lines) : Len(lines[i]) # LineLength THEN Err("line_length")
    ELSE IF ~startswith(lines[1], TagOf("header"))
            \/ ~startswith(lines[Len(lines)], TagOf("footer")) THEN Err("start_end")
    ELSE IF \E i \in 2..(Len(lines) - 1) : ~startswith(lines[i], TagOf("transaction"))
         THEN Err("interior_tag")
    ELSE IF ~(1 <= Len(lines) - 2 /\ Len(lines) - 2 <= MaxTransactions) THEN Err("tx_count")
    ELSE Ok

(***************************************************************************)
(* data_factory.py: DataFactory                                            *)
(***************************************************************************)
parse_header_data(data) ==
    IF strip(Slice(data, 0, 2)) # TagOf("header")
    THEN [ok |-> FALSE, msg |-> "tag_header", data |-> None]
    ELSE [ok |-> TRUE, msg |-> "none",
          data |-> Some([name       |-> StrV(strip(Slice(data, 2, 30))),
                         surname    |-> StrV(strip(Slice(data, 30, 60))),
                         patronymic |-> StrV(strip(Slice(data, 60, 90))),
                         address    |-> StrV(strip(Slice(data, 90, 120)))])]

parse_transaction_data(data) ==
    IF strip(Slice(data, 0, 2)) # TagOf("transaction")
    THEN [ok |-> FALSE, msg |-> "tag_transaction", data |-> None]
    ELSE [ok |-> TRUE, msg |-> "none",
          data |-> Some([counter  |-> StrV(strip(Slice(data, 2, 8))),
                         amount   |-> StrV(strip(Slice(data, 8, 20))),
                         currency |-> StrV(strip(Slice(data, 20, 23))),
                         reserved |-> StrV(strip(Slice(data, 23, 120)))])]

parse_footer_data(data) ==
    IF strip(Slice(data, 0, 2)) # TagOf("footer")
    THEN [ok |-> FALSE, msg |-> "tag_footer", data |-> None]
    ELSE [ok |-> TRUE, msg |-> "none",
          data |-> Some([total_counter |-> StrV(strip(Slice(data, 2, 8))),
                         control_sum   |-> StrV(strip(Slice(data, 8, 20))),
                         reserved      |-> StrV(strip(Slice(data, 20, 120)))])]

\* Header(**data) / Transaction(**data) / Footer(**data): __post_init__ runs
\* validate_dataclass; a DataValidationError becomes a DataFactorError
create_header(data) == validate_dataclass("header", data)

create_transaction(data) == validate_dataclass("transaction", data)

create_footer(data) == validate_dataclass("footer", data)

(***************************************************************************)
(* file_operations.py: FileOperations                                      *)
(* A session is [obj, header, transactions, footer, is_loaded, currency];  *)
(* obj is FALSE while the CLI holds no FileOperations object.  An error is *)
(* [type, msg, rec]: the exception class that leaves the method, its cause *)
(* and the record kind its message names ("none" when it names none).      *)
(***************************************************************************)
NoError == [type |-> "ok", msg |-> "none", rec |-> "none"]

Error(t, m) == [type |-> t, msg |-> m, rec |-> "none"]

\* a DataFactorError caught as any other exception: read_file's last handler
FactoryErrorAsFormatError(kind, m) == Error("FileFormatError", m)

\* DataFactorError(f"Error creating {kind}: {e}") of create_header /
\* create_transaction / create_footer, which read_file raises again
FactoryError(kind, m) == [type |-> "DataFactorError", msg |-> m, rec |-> kind]

NoFileOperations ==
    [obj |-> FALSE, header |-> None, transactions |-> <<>>, footer |-> None,
     is_loaded |-> FALSE, currency |-> <<>>]

\* FileOperations.__init__
NewFileOperations == [NoFileOperations EXCEPT !.obj = TRUE]

\* validate_and_set_currency: lines[1] must exist (IndexError otherwise)
validate_and_set_currency(fo, lines) ==
    IF Len(lines) < 2 THEN [fo |-> fo, err |-> Error("FileFormatError", "index_error")]
    ELSE Bind(parse_transaction_data(lines[2]), LAMBDA p :
             IF ~p.ok THEN [fo |-> fo, err |-> Error("FileFormatError", p.msg)]
             ELSE IF p.data[1].currency.s \notin ALLOWED_CURRENCIES
             THEN [fo |-> fo, err |-> Error("FileFormatError", "invalid_currency")]
             ELSE [fo |-> [fo EXCEPT !.currency = p.data[1].currency.s], err |-> NoError])

\* LoadTransactions without the comparison with the session currency
RECURSIVE LoadTransactionsAnyCurrency(_, _, _, _)
LoadTransactionsAnyCurrency(lines, i, currency, acc) ==
    IF i > Len(lines) - 1 THEN [txs |-> acc, err |-> NoError]
    ELSE Bind(parse_transaction_data(lines[i]), LAMBDA p :
             IF ~p.ok THEN [txs |-> acc, err |-> Error("FileFormatError", p.msg)]
             ELSE Bind(create_transaction(p.data[1]), LAMBDA t :
                      IF ~t.ok THEN [txs |-> acc, err |-> FactoryError("transaction", t.msg)]
                      ELSE LoadTransactionsAnyCurrency(lines, i + 1, currency,
                                                       Append(acc, t.inst))))

\* the loop of read_file over lines[1:-1], from line i (1-based) on: the
\* transactions appended so far stay in the list when a line fails
RECURSIVE LoadTransactions(_, _, _, _)
LoadTransactions(lines, i, currency, acc) ==
    IF i > Len(lines) - 1 THEN [txs |-> acc, err |-> NoError]
    ELSE Bind(parse_transaction_data(lines[i]), LAMBDA p :
             IF ~p.ok THEN [txs |-> acc, err |-> Error("FileFormatError", p.msg)]
             ELSE IF p.data[1].currency.s # currency
             THEN [txs |-> acc, err |-> Error("FileFormatError", "currency_mismatch")]
             ELSE Bind(create_transaction(p.data[1]), LAMBDA t :
                      IF ~t.ok THEN [txs |-> acc, err |-> FactoryError("transaction", t.msg)]
                      ELSE LoadTransactions(lines, i + 1, currency, Append(acc, t.inst))))

\* footer_data = parse_footer_data(lines[-1]); self.footer = create_footer(..);
\* self.is_loaded = True
BuildFooter(fo, lines) ==
    Bind(parse_footer_data(lines[Len(lines)]), LAMBDA fp :
        IF ~fp.ok THEN [fo |-> fo, err |-> Error("FileFormatError", fp.msg)]
        ELSE Bind(create_footer(fp.data[1]), LAMBDA f :
                 IF ~f.ok THEN [fo |-> fo, err |-> FactoryError("footer", f.msg)]
                 ELSE [fo |-> [fo EXCEPT !.footer = Some(f.inst), !.is_loaded = TRUE],
                       err |-> NoError]))

\* the for loop of read_file, then the footer
BuildTransactions(fo, lines) ==
    Bind(LoadTransactions(lines, 2, fo.currency, fo.transactions), LAMBDA l :
        IF l.err # NoError THEN [fo |-> [fo EXCEPT !.transactions = l.txs], err |-> l.err]
        ELSE BuildFooter([fo EXCEPT !.transactions = l.txs], lines))

\* the part of read_file after the structure check
BuildRecords(fo, lines) ==
    Bind(parse_header_data(lines[1]), LAMBDA hp :
        IF ~hp.ok THEN [fo |-> fo, err |-> Error("FileFormatError", hp.msg)]
        ELSE Bind(create_header(hp.data[1]), LAMBDA h :
                 IF ~h.ok THEN [fo |-> fo, err |-> FactoryError("header", h.msg)]
                 ELSE BuildTransactions([fo EXCEPT !.header = Some(h.inst)], lines)))

\* read_file once a session that was loaded has been reset
ReadInto(fo, d) ==
    IF ~d.exists THEN [fo |-> fo, err |-> Error("FileNotFoundError", "no_file")]
    ELSE Bind(validate_and_set_currency(fo, d.lines), LAMBDA c :
             IF c.err # NoError THEN c
             ELSE Bind(validate_file_structure(d.lines), LAMBDA v :
                      IF ~v.ok THEN [fo |-> c.fo, err |-> Error("FileFormatError", v.msg)]
                      ELSE BuildRecords(c.fo, d.lines)))

\* read_file on session fo with the file d = [exists, lines]
read_file(fo, d) == ReadInto(IF fo.is_loaded THEN NewFileOperations ELSE fo, d)

\* the value a getattr(record, field_name, None) returns: the field's text,
\* the tag for field_id / _field_id, None for a name the record lacks
GetAttr(kind, r, field_name) ==
    IF HasField(kind, field_name) THEN Some(r[field_name])
    ELSE IF field_name \in {"field_id", "_field_id"} THEN Some(r._field_id)
    ELSE None

\* f"{counter_value:0>6}"
FormatCounter(counter_value) == rjust(counter_value, 6, "0")

\* index of the first transaction with that counter, 0 when there is none
FindTransaction(txs, formatted) ==
    IF \E i \in 1..Len(txs) : txs[i].counter = formatted
    THEN CHOOSE i \in 1..Len(txs) :
             /\ txs[i].counter = formatted
             /\ \A j \in 1..(i - 1) : txs[j].counter # formatted
    ELSE 0

\* what get_field_value returns for getattr's result a
Returned(a) ==
    IF a = None THEN [kind |-> "none", s |-> <<>>] ELSE [kind |-> "value", s |-> a[1]]

\* get_field_value reading the records whether or not the load succeeded
get_field_valueUnguarded(fo, record_type, field_name, counter_value) ==
    IF record_type = "header" /\ fo.header # None
    THEN Returned(GetAttr("header", fo.header[1], field_name))
    ELSE IF record_type = "footer" /\ fo.footer # None
    THEN Returned(GetAttr("footer", fo.footer[1], field_name))
    ELSE IF record_type = "transaction" /\ fo.transactions # <<>>
    THEN Bind(FindTransaction(fo.transactions, FormatCounter(counter_value)), LAMBDA i :
             IF i = 0 THEN [kind |-> "no_transaction", s |-> <<>>]
             ELSE Returned(GetAttr("transaction", fo.transactions[i], field_name)))
    ELSE [kind |-> "invalid_record_type", s |-> <<>>]

\* get_field_value: [kind, s] with kind "value" (a field's text), "none"
\* (getattr's default) or the name of the message returned
get_field_value(fo, record_type, field_name, counter_value) ==
    IF ~fo.is_loaded THEN [kind |-> "not_loaded", s |-> <<>>]
    ELSE IF record_type = "header" /\ fo.header # None
    THEN Returned(GetAttr("header", fo.header[1], field_name))
    ELSE IF record_type = "footer" /\ fo.footer # None
    THEN Returned(GetAttr("footer", fo.footer[1], field_name))
    ELSE IF record_type = "transaction" /\ fo.transactions # <<>>
    THEN Bind(FindTransaction(fo.transactions, FormatCounter(counter_value)), LAMBDA i :
             IF i = 0 THEN [kind |-> "no_transaction", s |-> <<>>]
             ELSE Returned(GetAttr("transaction", fo.transactions[i], field_name)))
    ELSE [kind |-> "invalid_record_type", s |-> <<>>]

\* the lines save_file writes when nothing fails
Serialize(fo) ==
    <<to_fixed_width_string("header", fo.header[1])>>
    \o [i \in 1..Len(fo.transactions) |->
            to_fixed_width_string("transaction", fo.transactions[i])]
    \o <<to_fixed_width_string("footer", fo.footer[1])>>

\* the header line and the transaction lines, in order
SerializeBody(fo) ==
    <<to_fixed_width_string("header", fo.header[1])>>
    \o [i \in 1..Len(fo.transactions) |->
            to_fixed_width_string("transaction", fo.transactions[i])]

\* save_file: open(path, 'w') empties the file, then the lines are written
\* one by one; a missing header or footer raises after the earlier writes
save_file(fo, d) ==
    IF ~d.exists THEN [disk |-> d, err |-> Error("FileNotFoundError", "no_file")]
    ELSE IF fo.header = None
    THEN [disk |-> [d EXCEPT !.lines = <<>>], err |-> Error("FileFormatError", "attribute_error")]
    ELSE IF fo.footer = None
    THEN [disk |-> [d EXCEPT !.lines = SerializeBody(fo)],
          err |-> Error("FileFormatError", "attribute_error")]
    ELSE [disk |-> [d EXCEPT !.lines = Serialize(fo)], err |-> NoError]

\* f"{int(self.footer.total_counter) + 1:06d}"
NewTotalCounter(footer) == ZeroInt(ParseInt(footer.total_counter).n + 1, 6)

\* f"{float(self.footer.control_sum) + float(amount):.2f}".rjust(12, '0')
NewControlSum(footer, amount) ==
    rjust(Fixed2(MAdd(ParseFloat(footer.control_sum).m, ParseFloat(amount).m)), 12, "0")

\* update_footer: control_sum is validated and stored first, total_counter
\* second; a DataValidationError leaves at the first failure
update_footer(footer, amount) ==
    Bind(validate_field("footer", footer, "control_sum",
                        StrV(NewControlSum(footer, amount))), LAMBDA r1 :
        IF ~r1.ok THEN [ok |-> FALSE, msg |-> r1.msg, footer |-> footer]
        ELSE Bind(validate_field("footer", r1.inst, "total_counter",
                                 StrV(NewTotalCounter(footer))), LAMBDA r2 :
                 IF ~r2.ok THEN [ok |-> FALSE, msg |-> r2.msg, footer |-> r1.inst]
                 ELSE [ok |-> TRUE, msg |-> "none", footer |-> r2.inst]))

(***************************************************************************)
(* cli.py: the commands.  Each do_* operator gives the whole effect of the *)
(* handler: [fo, disk, out, msg], with out naming the branch that ended it *)
(* ("crash" is an exception no handler catches: it ends the command loop). *)
(***************************************************************************)
Result(fo, d, out, msg) == [fo |-> fo, disk |-> d, out |-> out, msg |-> msg]

\* LockLookup with the flag never read
LockLookupIgnoringFlag(lk, record_type, field_name) ==
    IF ~\E k \in DOMAIN lk : k[1] = record_type THEN "attribute_error" ELSE "open"

\* self.config.lock_config.get(record_type).get(field_name): lk maps the
\* <<record type, field>> pairs of the configuration to their flags
LockLookup(lk, record_type, field_name) ==
    IF ~\E k \in DOMAIN lk : k[1] = record_type THEN "attribute_error"
    ELSE IF <<record_type, field_name>> \in DOMAIN lk /\ lk[<<record_type, field_name>>]
    THEN "locked"
    ELSE "open"

HasAttr(kind, r, field_name) == GetAttr(kind, r, field_name) # None

\* end of do_set_field: self.file_ops.save_file() inside the outer try
SaveAfterEdit(fo, d) ==
    Bind(save_file(fo, d), LAMBDA s :
        IF s.err = NoError THEN Result(fo, s.disk, "ok", "none")
        ELSE Result(fo, s.disk, "exception", s.err.msg))

\* RecalculateControlSum with the old amount left in the sum
RecalculateControlSumKeepingOld(fo, d, old_amount, new_amount) ==
    IF fo.footer = None THEN Result(fo, d, "exception", "attribute_error")
    ELSE Bind(validate_field("footer", fo.footer[1], "control_sum",
                 FloatV(MAdd(ParseFloat(fo.footer[1].control_sum).m, new_amount))), LAMBDA r2 :
             IF ~r2.ok THEN Result(fo, d, "validation_error", r2.msg)
             ELSE SaveAfterEdit([fo EXCEPT !.footer = Some(r2.inst)], d))

\* control_sum = float(footer.control_sum) - old_amount + new_amount, then
\* validate_field on the footer; fo already holds the edited transaction
RecalculateControlSum(fo, d, old_amount, new_amount) ==
    IF fo.footer = None THEN Result(fo, d, "exception", "attribute_error")
    ELSE Bind(validate_field("footer", fo.footer[1], "control_sum",
                 FloatV(MAdd(MSub(ParseFloat(fo.footer[1].control_sum).m, old_amount),
                             new_amount))), LAMBDA r2 :
             IF ~r2.ok THEN Result(fo, d, "validation_error", r2.msg)
             ELSE SaveAfterEdit([fo EXCEPT !.footer = Some(r2.inst)], d))

\* the edit of transaction i once it is found: the transaction's field is
\* validated and stored before the control sum is recalculated
EditTransaction(fo, d, i, field_name, old_amount, new_amount) ==
    IF ~old_amount.ok \/ ~new_amount.ok THEN Result(fo, d, "exception", "value_error")
    ELSE Bind(validate_field("transaction", fo.transactions[i], field_name,
                             FloatV(new_amount.m)), LAMBDA r1 :
             IF r1.msg = "exception" THEN Result(fo, d, "exception", "no_metadata")
             ELSE IF ~r1.ok THEN Result(fo, d, "validation_error", r1.msg)
             ELSE RecalculateControlSum([fo EXCEPT !.transactions[i] = r1.inst], d,
                                        old_amount.m, new_amount.m))

\* the transaction branch of do_set_field; counter_value <<>> is a missing
\* fourth argument
SetTransactionField(fo, d, field_name, value, counter_value) ==
    IF counter_value = <<>> THEN Result(fo, d, "usage", "none")
    ELSE Bind(FindTransaction(fo.transactions, FormatCounter(counter_value)), LAMBDA i :
             IF i = 0 THEN Result(fo, d, "no_transaction", "none")
             ELSE Bind(GetAttr("transaction", fo.transactions[i], field_name), LAMBDA a :
                      IF a = None THEN Result(fo, d, "exception", "attribute_error")
                      ELSE EditTransaction(fo, d, i, field_name,
                                           ParseFloat(a[1]), ParseFloat(value))))

\* SetRecordField storing the value as typed once it has been validated
SetRecordFieldAsTyped(fo, d, kind, field_name, value) ==
    Bind(validate_field(kind, fo[kind][1], field_name, StrV(value)), LAMBDA r :
        IF r.msg = "exception" THEN Result(fo, d, "exception", "no_metadata")
        ELSE IF ~r.ok THEN Result(fo, d, "validation_error", r.msg)
        ELSE SaveAfterEdit([fo EXCEPT ![kind] = Some([fo[kind][1] EXCEPT ![field_name] = value])],
                           d))

\* the header and footer branches of do_set_field
SetRecordField(fo, d, kind, field_name, value) ==
    Bind(validate_field(kind, fo[kind][1], field_name, StrV(value)), LAMBDA r :
        IF r.msg = "exception" THEN Result(fo, d, "exception", "no_metadata")
        ELSE IF ~r.ok THEN Result(fo, d, "validation_error", r.msg)
        ELSE SaveAfterEdit([fo EXCEPT ![kind] = Some(r.inst)], d))

do_set_field(fo, lk, d, record_type, field_name, value, counter_value) ==
    Bind(LockLookup(lk, record_type, field_name), LAMBDA lock :
        IF lock = "attribute_error" THEN Result(fo, d, "lock_config_error", "none")
        ELSE IF lock = "locked" THEN Result(fo, d, "locked", "none")
        ELSE IF ~fo.obj THEN Result(fo, d, "no_file_ops", "none")
        ELSE IF record_type = "header" /\ fo.header # None
                /\ HasAttr("header", fo.header[1], field_name)
        THEN SetRecordField(fo, d, "header", field_name, value)
        ELSE IF record_type = "transaction"
        THEN SetTransactionField(fo, d, field_name, value, counter_value)
        ELSE IF record_type = "footer" /\ fo.footer # None
                /\ HasAttr("footer", fo.footer[1], field_name)
        THEN SetRecordField(fo, d, "footer", field_name, value)
        ELSE Result(fo, d, "invalid", "none"))

\* " " * 96
NewReserved == Fill(96, " ")

\* new_counter and transaction_data of do_add_transaction
NewTransactionData(fo, amount) ==
    [counter  |-> StrV(ZeroInt(Len(fo.transactions) + 1, 6)),
     amount   |-> FloatV(ParseFloat(amount).m),
     currency |-> StrV(fo.currency),
     reserved |-> StrV(NewReserved)]

\* FooterThenSave with save_file run before update_footer
FooterThenSaveEarly(fo, d, amount) ==
    IF fo.footer = None THEN Result(fo, d, "crash", "attribute_error")
    ELSE Bind(update_footer(fo.footer[1], amount), LAMBDA u :
             IF ~u.ok THEN Result([fo EXCEPT !.footer = Some(u.footer)], d, "footer_error", u.msg)
             ELSE Bind(save_file(fo, d), LAMBDA s :
                      IF s.err = NoError
                      THEN Result([fo EXCEPT !.footer = Some(u.footer)], s.disk, "ok", "none")
                      ELSE Result([fo EXCEPT !.footer = Some(u.footer)], s.disk, "crash",
                                  s.err.msg)))

\* self.file_ops.update_footer(amount); self.file_ops.save_file(), with fo
\* already holding the appended transaction
FooterThenSave(fo, d, amount) ==
    IF fo.footer = None THEN Result(fo, d, "crash", "attribute_error")
    ELSE Bind(update_footer(fo.footer[1], amount), LAMBDA u :
             IF ~u.ok THEN Result([fo EXCEPT !.footer = Some(u.footer)], d, "footer_error", u.msg)
             ELSE Bind(save_file([fo EXCEPT !.footer = Some(u.footer)], d), LAMBDA s :
                      IF s.err = NoError
                      THEN Result([fo EXCEPT !.footer = Some(u.footer)], s.disk, "ok", "none")
                      ELSE Result([fo EXCEPT !.footer = Some(u.footer)], s.disk, "crash",
                                  s.err.msg)))

\* do_add_transaction putting the new transaction first in the list
do_add_transactionFirst(fo, d, amount) ==
    IF ~fo.obj THEN Result(fo, d, "no_file_ops", "none")
    ELSE IF fo.currency = <<>> THEN Result(fo, d, "no_currency", "none")
    ELSE Bind(validate_type(StrV(amount), "float"), LAMBDA v :
             IF ~v.ok THEN Result(fo, d, "validation_error", v.msg)
             ELSE Bind(create_transaction(NewTransactionData(fo, amount)), LAMBDA t :
                      IF ~t.ok THEN Result(fo, d, "factory_error", t.msg)
                      ELSE FooterThenSave([fo EXCEPT !.transactions = <<t.inst>> \o @],
                                          d, amount)))

\* the new transaction is appended before update_footer runs
do_add_transaction(fo, d, amount) ==
    IF ~fo.obj THEN Result(fo, d, "no_file_ops", "none")
    ELSE IF fo.currency = <<>> THEN Result(fo, d, "no_currency", "none")
    ELSE Bind(validate_type(StrV(amount), "float"), LAMBDA v :
             IF ~v.ok THEN Result(fo, d, "validation_error", v.msg)
             ELSE Bind(create_transaction(NewTransactionData(fo, amount)), LAMBDA t :
                      IF ~t.ok THEN Result(fo, d, "factory_error", t.msg)
                      ELSE FooterThenSave([fo EXCEPT !.transactions = Append(@, t.inst)],
                                          d, amount)))

\* do_load makes a new FileOperations and reads the file; every exception
\* of read_file is caught and printed
do_load(d) ==
    Bind(read_file(NewFileOperations, d), LAMBDA r : Result(r.fo, d, r.err.type, r.err.msg))

\* SetLock without the test that the entry exists
SetLockAnyEntry(lk, record_type, field_name, flag) ==
    [k \in DOMAIN lk \cup {<<record_type, field_name>>} |->
        IF k = <<record_type, field_name>> THEN flag ELSE lk[k]]

\* do_lock / do_unlock: only an entry of the configuration is changed
SetLock(lk, record_type, field_name, flag) ==
    IF <<record_type, field_name>> \in DOMAIN lk
    THEN [lk EXCEPT ![<<record_type, field_name>>] = flag]
    ELSE lk

(***************************************************************************)
(* Inputs: the files that may be on disk and the command arguments         *)
(***************************************************************************)
MaxSteps == 3

USD == <<"U", "S", "D">>

EUR == <<"E", "U", "R">>

XYZ == <<"X", "Y", "Z">>

Jo == <<"J", "o">>

Ann == <<"A", "n", "n">>

\* left-justified text: the content followed by spaces
ljust(s, width) == IF Len(s) >= width THEN s ELSE s \o Fill(width - Len(s), " ")

Amt(u, c) == ZeroFixed2(Money(u, c), 12)

Cnt(n) == ZeroInt(n, 6)

HeaderLine(name) ==
    TagOf("header") \o name \o rjust(Ann, 30, " ") \o Fill(30, " ") \o rjust(Jo, 30, " ")

TxLine(counter, amount, currency) ==
    TagOf("transaction") \o counter \o amount \o currency \o Fill(97, " ")

FooterLine(total_counter, control_sum) ==
    TagOf("footer") \o total_counter \o control_sum \o Fill(100, " ")

GoodHeader == HeaderLine(rjust(Jo, 28, " "))

\* one transaction of 100.00 USD, consistent footer
GoodFile ==
    <<GoodHeader, TxLine(Cnt(1), Amt(100, 0), USD), FooterLine(Cnt(1), Amt(100, 0))>>

\* two transactions whose sum is close to the widest control sum
LargeFile ==
    <<GoodHeader, TxLine(Cnt(1), Amt(999999999, 0), USD), TxLine(Cnt(2), Amt(0, 50), USD),
      FooterLine(Cnt(2), Amt(999999999, 50))>>

\* the name is left-justified in its field, the amounts are space-padded
LeftAlignedFile ==
    <<HeaderLine(ljust(Jo, 28)),
      TxLine(Cnt(1), rjust(Fixed2(Money(100, 0)), 12, " "), EUR),
      FooterLine(rjust(<<"1">>, 6, " "), rjust(Fixed2(Money(100, 0)), 12, " "))>>

\* every field is right-justified, the numbers are padded with spaces
SpacePaddedFile ==
    <<GoodHeader,
      TxLine(rjust(<<"1">>, 6, " "), rjust(Fixed2(Money(100, 0)), 12, " "), USD),
      TxLine(rjust(<<"2">>, 6, " "), rjust(<<"5", "0">>, 12, " "), USD),
      FooterLine(rjust(<<"2">>, 6, " "), rjust(Fixed2(Money(150, 0)), 12, " "))>>

\* the footer does not match the transactions; the only counter is 000002
InconsistentFile ==
    <<GoodHeader, TxLine(Cnt(2), Amt(100, 0), USD), FooterLine(Cnt(7), Amt(4798, 54))>>

\* the footer's total_counter is the widest 6-digit number
FullCounterFile ==
    <<GoodHeader, TxLine(Cnt(1), Amt(100, 0), USD), FooterLine(Cnt(999999), Amt(100, 0))>>

\* the second transaction carries another currency
MismatchFile ==
    <<GoodHeader, TxLine(Cnt(1), Amt(100, 0), USD), TxLine(Cnt(2), Amt(50, 0), EUR),
      FooterLine(Cnt(2), Amt(150, 0))>>

BadCurrencyFile ==
    <<GoodHeader, TxLine(Cnt(1), Amt(100, 0), XYZ), FooterLine(Cnt(1), Amt(100, 0))>>

\* the second transaction's amount is no number
BadAmountFile ==
    <<GoodHeader, TxLine(Cnt(1), Amt(100, 0), USD),
      TxLine(Cnt(2), rjust(<<"a", "b", "c">>, 12, " "), USD),
      FooterLine(Cnt(2), Amt(100, 0))>>

\* the footer's control sum is negative
NegativeFooterFile ==
    <<GoodHeader, TxLine(Cnt(1), Amt(100, 0), USD),
      FooterLine(Cnt(7), <<"0", "0", "0", "0">> \o Fixed2(Money(-4799, 46)))>>

\* the footer line is one character short
ShortLineFile ==
    <<GoodHeader, TxLine(Cnt(1), Amt(100, 0), USD),
      Slice(FooterLine(Cnt(1), Amt(100, 0)), 0, 119)>>

OneLineFile == <<GoodHeader>>

TwoLineFile == <<GoodHeader, FooterLine(Cnt(1), Amt(100, 0))>>

\* the file ends with a header line
BadTagFile ==
    <<GoodHeader, TxLine(Cnt(1), Amt(100, 0), USD), GoodHeader>>

InitialFiles ==
    {GoodFile, LargeFile, LeftAlignedFile, SpacePaddedFile, InconsistentFile,
     FullCounterFile, MismatchFile, BadCurrencyFile, BadAmountFile,
     NegativeFooterFile, ShortLineFile, OneLineFile, TwoLineFile, BadTagFile}

InitialDisks ==
    {[exists |-> TRUE, lines |-> f] : f \in InitialFiles}
    \cup {[exists |-> FALSE, lines |-> <<>>]}

\* the <<record type, field>> entries of lock_config.json
LockKeys ==
    {<<"header", "name">>, <<"transaction", "amount">>,
     <<"footer", "total_counter">>, <<"footer", "control_sum">>}

InitialLocks == {[k \in LockKeys |-> FALSE], [k \in LockKeys |-> TRUE]}

\* amounts typed after add_transaction
AddAmounts ==
    {<<"5", "0">>, <<"0", ".", "5">>, <<"-", "5">>, <<"a", "b", "c">>,
     <<"1">> \o Fill(9, "0")}

\* set_field commands: <<record type, field, value, counter>>
SetFieldCommands ==
    {<<"header", "name", Ann, <<>>>>,
     <<"header", "name", Fill(29, "x"), <<>>>>,
     <<"header", "surname", Jo, <<>>>>,
     <<"header", "field_id", <<"0", "9">>, <<>>>>,
     <<"header", "_field_id", <<"0", "9">>, <<>>>>,
     <<"transaction", "_field_id", <<"0", "9">>, <<"1">>>>,
     <<"footer", "_field_id", <<"0", "9">>, <<>>>>,
     <<"transaction", "amount", <<"7">>, <<"1">>>>,
     <<"transaction", "amount", <<"7", "5", ".", "2", "5">>, <<"2">>>>,
     <<"transaction", "amount", <<"-", "5">>, <<"1">>>>,
     <<"transaction", "amount", <<"7">>, <<>>>>,
     <<"transaction", "amount", <<"7">>, <<"9">>>>,
     <<"transaction", "counter", <<"5">>, <<"1">>>>,
     <<"transaction", "currency", EUR, <<"1">>>>,
     <<"footer", "total_counter", <<"5">>, <<>>>>,
     <<"footer", "control_sum", <<"1", ".", "5">>, <<>>>>,
     <<"footer", "control_sum", <<"a", "b", "c">>, <<>>>>,
     <<"trailer", "name", Jo, <<>>>>}

\* get_field commands: <<record type, field, counter>>
GetFieldCommands ==
    {<<"header", "name", <<>>>>,
     <<"footer", "control_sum", <<>>>>,
     <<"transaction", "amount", <<"1">>>>,
     <<"transaction", "amount", <<"2">>>>,
     <<"transaction", "amount", <<"3">>>>,
     <<"transaction", "amount", <<>>>>,
     <<"header", "czeslaw", <<>>>>}

\* lock / unlock commands: <<record type, field>>
LockCommands ==
    {<<"header", "name">>, <<"footer", "control_sum">>, <<"header", "surname">>,
     <<"trailer", "name">>}

(***************************************************************************)
(* The command loop                                                        *)
(***************************************************************************)
\* last: the command just run, its arguments, its outcome, and the session
\* and file it started from
Last(cmd, rt, fn, val, ctr, out, msg, ret) ==
    [cmd |-> cmd, rt |-> rt, fn |-> fn, val |-> val, ctr |-> ctr,
     out |-> out, msg |-> msg, ret |-> ret, fo |-> file_ops, dk |-> disk, lk |-> lock_config]

NoReturn == [kind |-> "none", s |-> <<>>]

Running == last.out # "crash" /\ steps < MaxSteps

Init ==
    /\ file_ops = NoFileOperations
    /\ lock_config \in InitialLocks
    /\ disk \in InitialDisks
    /\ steps = 0
    /\ last = [cmd |-> "start", rt |-> "", fn |-> "", val |-> <<>>, ctr |-> <<>>,
               out |-> "ok", msg |-> "none", ret |-> NoReturn,
               fo |-> NoFileOperations, dk |-> disk, lk |-> lock_config]

Load ==
    /\ Running
    /\ \E r \in {do_load(disk)} :
           /\ file_ops' = r.fo
           /\ last' = Last("load", "", "", <<>>, <<>>, r.out, r.msg, NoReturn)
    /\ steps' = steps + 1
    /\ UNCHANGED <<lock_config, disk>>

SetField(c) ==
    /\ Running
    /\ \E r \in {do_set_field(file_ops, lock_config, disk, c[1], c[2], c[3], c[4])} :
           /\ file_ops' = r.fo
           /\ disk' = r.disk
           /\ last' = Last("set_field", c[1], c[2], c[3], c[4], r.out, r.msg, NoReturn)
    /\ steps' = steps + 1
    /\ UNCHANGED lock_config

AddTransaction(amount) ==
    /\ Running
    /\ \E r \in {do_add_transaction(file_ops, disk, amount)} :
           /\ file_ops' = r.fo
           /\ disk' = r.disk
           /\ last' = Last("add_transaction", "", "", amount, <<>>, r.out, r.msg, NoReturn)
    /\ steps' = steps + 1
    /\ UNCHANGED lock_config

\* do_get_field: without a FileOperations object the call raises
GetField(c) ==
    /\ Running
    /\ last' = IF c[1] = "transaction" /\ c[3] = <<>>
               THEN Last("get_field", c[1], c[2], <<>>, c[3], "usage", "none", NoReturn)
               ELSE IF ~file_ops.obj
               THEN Last("get_field", c[1], c[2], <<>>, c[3], "crash", "attribute_error",
                         NoReturn)
               ELSE Last("get_field", c[1], c[2], <<>>, c[3], "ok", "none",
                         get_field_value(file_ops, c[1], c[2], c[3]))
    /\ steps' = steps + 1
    /\ UNCHANGED <<file_ops, lock_config, disk>>

Lock(k) ==
    /\ Running
    /\ lock_config' = SetLock(lock_config, k[1], k[2], TRUE)
    /\ last' = Last("lock", k[1], k[2], <<>>, <<>>,
                    IF k \in DOMAIN lock_config THEN "ok" ELSE "unknown_field", "none",
                    NoReturn)
    /\ steps' = steps + 1
    /\ UNCHANGED <<file_ops, disk>>

Unlock(k) ==
    /\ Running
    /\ lock_config' = SetLock(lock_config, k[1], k[2], FALSE)
    /\ last' = Last("unlock", k[1], k[2], <<>>, <<>>,
                    IF k \in DOMAIN lock_config THEN "ok" ELSE "unknown_field", "none",
                    NoReturn)
    /\ steps' = steps + 1
    /\ UNCHANGED <<file_ops, disk>>

Next ==
    \/ Load
    \/ \E c \in SetFieldCommands : SetField(c)
    \/ \E a \in AddAmounts : AddTransaction(a)
    \/ \E c \in GetFieldCommands : GetField(c)
    \/ \E k \in LockCommands : Lock(k)
    \/ \E k \in LockCommands : Unlock(k)

Spec == Init /\ [][Next]_vars

(***************************************************************************)
(* Properties                                                              *)
(***************************************************************************)
Loaded == file_ops.is_loaded

Amount(text) == ParseFloat(text).m

RECURSIVE SumAmounts(_)
SumAmounts(txs) ==
    IF Len(txs) = 0 THEN Money(0, 0)
    ELSE MAdd(SumAmounts(Slice(txs, 0, Len(txs) - 1)), Amount(txs[Len(txs)].amount))

TotalCounter(fo) == ParseInt(fo.footer[1].total_counter).n

ControlSum(fo) == Amount(fo.footer[1].control_sum)

\* C1: in every Loaded state footer.total_counter equals the number of
\* transactions of the session and footer.control_sum equals the sum of
\* their amounts.
FooterInSync ==
    Loaded => /\ TotalCounter(file_ops) = Len(file_ops.transactions)
              /\ ControlSum(file_ops) = SumAmounts(file_ops.transactions)

\* C2: whenever add_transaction fails, the transaction list and the footer
\* are exactly what they were before the command.
FailedAddChangesNothing ==
    (last.cmd = "add_transaction" /\ last.out # "ok")
        => /\ file_ops.transactions = last.fo.transactions
           /\ file_ops.footer = last.fo.footer

\* C3: whenever read_file fails the session ends Unloaded with no partial
\* records: is_loaded is false, header and footer are unset and the
\* transaction list is empty.
FailedLoadLeavesNothing ==
    (last.cmd = "load" /\ last.out # "ok")
        => /\ ~file_ops.is_loaded
           /\ file_ops.header = None
           /\ file_ops.footer = None
           /\ file_ops.transactions = <<>>

\* C4: a set_field command that fails leaves every record unchanged (for a
\* transaction-amount edit whose new control sum is rejected, the amount
\* still holds its old value and the footer is unchanged).
FailedSetFieldChangesNothing ==
    (last.cmd = "set_field" /\ last.out # "ok")
        => /\ file_ops.header = last.fo.header
           /\ file_ops.transactions = last.fo.transactions
           /\ file_ops.footer = last.fo.footer

\* the lock flag of <<record type, field>> in configuration lk
IsLockedIn(lk, record_type, field_name) ==
    /\ <<record_type, field_name>> \in DOMAIN lk
    /\ lk[<<record_type, field_name>>]

\* C5: set_field on a field whose lock flag is true is rejected: no record
\* of the session changes and the file on disk is unchanged.
LockedSetFieldRejected ==
    (last.cmd = "set_field" /\ IsLockedIn(last.lk, last.rt, last.fn))
        => /\ last.out = "locked"
           /\ file_ops = last.fo
           /\ disk = last.dk

\* C5 witness: a set_field on a locked field of a loaded session was refused
LockedSetFieldSeen ==
    /\ last.cmd = "set_field"
    /\ IsLockedIn(last.lk, last.rt, last.fn)
    /\ last.fo.is_loaded
    /\ last.out = "locked"

\* the value of the field <<record type, field>> in session fo: for the
\* transactions, the sequence of that field over the first n of them
FieldValue(fo, k, n) ==
    IF k[1] = "transaction" THEN [i \in 1..n |-> fo.transactions[i][k[2]]]
    ELSE fo[k[1]][1][k[2]]

\* C6: while a field's lock flag is true, no set_field or add_transaction
\* command changes the value of that field.
LockedFieldsKeepValues ==
    (last.cmd \in {"set_field", "add_transaction"} /\ last.fo.is_loaded)
        => \A k \in DOMAIN last.lk :
               last.lk[k] =>
                   FieldValue(file_ops, k, Len(last.fo.transactions))
                       = FieldValue(last.fo, k, Len(last.fo.transactions))

\* the <<first, last>> 0-based offsets of the fields of a line, by its tag
FieldOffsets(line) ==
    IF startswith(line, TagOf("header"))
    THEN {<<2, 30>>, <<30, 60>>, <<60, 90>>, <<90, 120>>}
    ELSE IF startswith(line, TagOf("transaction"))
    THEN {<<2, 8>>, <<8, 20>>, <<20, 23>>, <<23, 120>>}
    ELSE {<<2, 8>>, <<8, 20>>, <<20, 120>>}

\* every field of the line is some spaces followed by content that neither
\* starts nor ends with whitespace (the content may be empty)
RightJustified(line) ==
    \A o \in FieldOffsets(line) :
        \E k \in 0..(o[2] - o[1]) :
            /\ \A i \in (o[1] + 1)..(o[1] + k) : line[i] = " "
            /\ \/ k = o[2] - o[1]
               \/ /\ line[o[1] + k + 1] \notin Whitespace
                  /\ line[o[2]] \notin Whitespace

SavedLines(fo, d) == save_file(fo, d).disk.lines

\* C7 as stated: for every file read_file accepts, loading it and saving it
\* at once writes lines identical to the loaded lines.
RoundTripIdentical ==
    (last.cmd = "load" /\ last.out = "ok") => SavedLines(file_ops, disk) = disk.lines

\* C7 amended: for every file read_file accepts in which every field is
\* right-justified (spaces, then content that neither starts nor ends with
\* whitespace), loading it and saving it at once writes lines identical to
\* the loaded lines.
RoundTripRightJustified ==
    (/\ last.cmd = "load"
     /\ last.out = "ok"
     /\ \A i \in 1..Len(disk.lines) : RightJustified(disk.lines[i]))
        => SavedLines(file_ops, disk) = disk.lines

\* C7 witness: a file with right-justified fields has been loaded
RightJustifiedLoaded ==
    /\ last.cmd = "load"
    /\ last.out = "ok"
    /\ \A i \in 1..Len(disk.lines) : RightJustified(disk.lines[i])
    /\ Len(file_ops.transactions) >= 2
    /\ \E i \in 1..Len(disk.lines) : \E j \in 3..(LineLength - 1) :
           disk.lines[i][j] = " " /\ disk.lines[i][j + 1] # " "

\* the amounts add_transaction accepts
ValidAmounts == {a \in AddAmounts : validate_type(StrV(a), "float").ok}

\* session and outcome after add_transaction(a1) then add_transaction(a2)
AddTwice(fo, d, a1, a2) ==
    Bind(do_add_transaction(fo, d, a1), LAMBDA r1 :
        Bind(do_add_transaction(r1.fo, r1.disk, a2), LAMBDA r2 :
            [ok |-> r1.out = "ok" /\ r2.out = "ok", fo |-> r2.fo]))

\* C8: for all valid amounts a1, a2, add_transaction(a1) then
\* add_transaction(a2) on a Loaded session yields footer.control_sum equal to
\* the control sum before plus a1 + a2 and footer.total_counter equal to the
\* transaction count before plus 2.
TwoAddsUpdateFooter ==
    Loaded =>
        \A a1 \in ValidAmounts, a2 \in ValidAmounts :
            \A r \in {AddTwice(file_ops, disk, a1, a2)} :
                r.ok => /\ ControlSum(r.fo)
                             = MAdd(ControlSum(file_ops), MAdd(Amount(a1), Amount(a2)))
                        /\ TotalCounter(r.fo) = Len(file_ops.transactions) + 2

\* C9: a successful add_transaction(amount) on a Loaded session holding n
\* transactions appends one transaction with counter n+1 (6 digits), the
\* amount in 12 characters with 2 fraction digits and the session currency;
\* get_field_value('transaction', 'amount', n+1) then returns that amount.
AddAppendsAndIsFound ==
    (last.cmd = "add_transaction" /\ last.out = "ok" /\ last.fo.is_loaded)
        => /\ Len(file_ops.transactions) = Len(last.fo.transactions) + 1
           /\ \A t \in {file_ops.transactions[Len(file_ops.transactions)]} :
                  /\ t.counter = ZeroInt(Len(last.fo.transactions) + 1, 6)
                  /\ t.amount = ZeroFixed2(Amount(last.val), 12)
                  /\ t.currency = file_ops.currency
                  /\ get_field_value(file_ops, "transaction", "amount",
                                     NatToDigits(Len(last.fo.transactions) + 1))
                         = [kind |-> "value", s |-> t.amount]

\* C10: in every Loaded state no two transactions of the session have the
\* same counter.
CountersUnique ==
    Loaded => \A i, j \in 1..Len(file_ops.transactions) :
                  i # j => file_ops.transactions[i].counter # file_ops.transactions[j].counter

\* C16: the record-type tag of every record is constant: after any sequence
\* of commands, set_field on field_id or _field_id included, the header's tag
\* is 01, every transaction's tag is 02 and the footer's tag is 03.
TagsConstant ==
    /\ file_ops.header # None => file_ops.header[1]._field_id = <<"0", "1">>
    /\ \A i \in 1..Len(file_ops.transactions) :
           file_ops.transactions[i]._field_id = <<"0", "2">>
    /\ file_ops.footer # None => file_ops.footer[1]._field_id = <<"0", "3">>

\* C16 witness: set_field on _field_id has run on a loaded session, past the
\* lock check
TagEditTried ==
    /\ last.cmd = "set_field"
    /\ last.fn = "_field_id"
    /\ last.fo.is_loaded
    /\ last.out = "exception"

\* the currency field of a transaction line
LineCurrency(line) == strip(Slice(line, 20, 23))

\* C12: in every Loaded state the session currency is one of USD, EUR, GBP,
\* PLN and every transaction of the session carries it; after a successful
\* load it is the currency of the file's first transaction line; no command
\* but load changes it; a file with a transaction line of another currency is
\* rejected by read_file.
SessionCurrencyFixed ==
    /\ Loaded =>
           /\ file_ops.currency \in ALLOWED_CURRENCIES
           /\ \A i \in 1..Len(file_ops.transactions) :
                  file_ops.transactions[i].currency = file_ops.currency
    /\ (last.cmd = "load" /\ last.out = "ok") =>
           file_ops.currency = LineCurrency(last.dk.lines[2])
    /\ (last.cmd \notin {"start", "load"} /\ last.fo.is_loaded) =>
           file_ops.currency = last.fo.currency
    /\ (/\ last.cmd = "load"
        /\ last.dk.exists
        /\ \E i \in 3..(Len(last.dk.lines) - 1) :
               LineCurrency(last.dk.lines[i]) # LineCurrency(last.dk.lines[2]))
           => last.out # "ok"

\* C12 witness: a transaction has been added to a loaded session
AddedToLoaded ==
    /\ Loaded
    /\ last.cmd = "add_transaction"
    /\ last.out = "ok"
    /\ last.fo.is_loaded
    /\ Len(file_ops.transactions) >= 2

\* every declared field of record r holds a text of the field's width, and
\* the line of the record has LineLength characters
HasWidths(kind, r) ==
    /\ \A i \in 1..Len(FieldsOf(kind)) :
           Len(r[FieldsOf(kind)[i]]) = Meta[kind][FieldsOf(kind)[i]].width
    /\ Len(to_fixed_width_string(kind, r)) = LineLength

\* C15: in every reachable state each field of each record of the session
\* is a text of exactly the field's width, so every line of
\* to_fixed_width_string has 120 characters; a value whose formatted form is
\* longer than the width is rejected: nothing is stored, clipped or not.
FieldsHaveWidth ==
    /\ file_ops.header # None => HasWidths("header", file_ops.header[1])
    /\ \A i \in 1..Len(file_ops.transactions) :
           HasWidths("transaction", file_ops.transactions[i])
    /\ file_ops.footer # None => HasWidths("footer", file_ops.footer[1])
    /\ (/\ last.cmd = "set_field"
        /\ last.rt \in {"header", "footer"}
        /\ HasField(last.rt, last.fn)
        /\ Len(last.val) > Meta[last.rt][last.fn].width)
           => file_ops = last.fo /\ disk = last.dk
    /\ (/\ last.cmd = "add_transaction"
        /\ ParseFloat(last.val).ok
        /\ Len(ZeroFixed2(Amount(last.val), Meta.transaction.amount.width))
               > Meta.transaction.amount.width)
           => file_ops = last.fo /\ disk = last.dk

\* C15 witness: a loaded session has refused a header value that is too long
TooLongRefused ==
    /\ last.cmd = "set_field"
    /\ last.rt = "header"
    /\ last.fo.is_loaded
    /\ last.out = "validation_error"
    /\ last.msg = "exceeds_width"

\* C17: a get_field command that reaches get_field_value on a session that
\* is not loaded ends normally with the message 'No file loaded or file load
\* failed.' as its value, and a get_field command in any state leaves the
\* session (header, transactions, footer, currency, is_loaded) as it was.
GetFieldFailsSoftly ==
    /\ (/\ last.cmd = "get_field"
        /\ last.fo.obj
        /\ ~last.fo.is_loaded
        /\ ~(last.rt = "transaction" /\ last.ctr = <<>>))
           => /\ last.out = "ok"
              /\ last.ret = [kind |-> "not_loaded", s |-> <<>>]
    /\ last.cmd = "get_field" => file_ops = last.fo

\* C17 witness: get_field was answered on a session whose load had failed
\* after the header was built
GetFieldAfterFailedLoad ==
    /\ last.cmd = "get_field"
    /\ last.fo.obj
    /\ ~last.fo.is_loaded
    /\ last.fo.header # None
    /\ last.rt = "header"
    /\ last.ret.kind = "not_loaded"

\* C18: update_footer(amount) commits atomically: whenever it fails for a
\* valid amount, footer.total_counter and footer.control_sum both keep the
\* values they had before the call.
UpdateFooterAtomic ==
    file_ops.footer # None =>
        \A a \in ValidAmounts :
            \A u \in {update_footer(file_ops.footer[1], a)} :
                ~u.ok => /\ u.footer.total_counter = file_ops.footer[1].total_counter
                         /\ u.footer.control_sum = file_ops.footer[1].control_sum

\* C19: a load of an existing file with fewer than three lines fails with
\* the minimum-line-count message, whatever the lines contain.
ShortFileGetsLineCountMessage ==
    (last.cmd = "load" /\ last.dk.exists /\ Len(last.dk.lines) < 3)
        => last.out = "FileFormatError" /\ last.msg = "min_lines"

\* the messages of validate_type and validate_fixed_width
FieldCauses ==
    {"expected_float", "expected_float_negative", "expected_int",
     "expected_int_negative", "type_mismatch", "exceeds_width"}

\* the messages of validate_file_structure, of the currency checks, of the
\* parse_* tag checks, and the IndexError of lines[1]
StructureCauses ==
    {"min_lines", "line_length", "start_end", "interior_tag", "tx_count",
     "invalid_currency", "currency_mismatch",
     "tag_header", "tag_transaction", "tag_footer", "index_error"}

\* the record that was being built when read_file left session fo
RecordInProgress(fo, d) ==
    IF fo.header = None THEN "header"
    ELSE IF Len(fo.transactions) < Len(d.lines) - 2 THEN "transaction"
    ELSE "footer"

MaxLines == 4

GoodTransaction == TxLine(Cnt(1), Amt(100, 0), USD)

GoodFooter == FooterLine(Cnt(1), Amt(100, 0))

\* lines of 120, 119 and 121 characters with each of the three tags
LineKinds ==
    {GoodHeader, GoodTransaction, GoodFooter,
     Slice(GoodHeader, 0, 119), Slice(GoodTransaction, 0, 119),
     GoodTransaction \o <<" ">>}

\* header, n transaction lines and last_line, with line odd_at (0: none)
\* replaced by odd_line
ManyLines(n, last_line, odd_at, odd_line) ==
    [i \in 1..(n + 2) |->
        IF i = odd_at THEN odd_line
        ELSE IF i = 1 THEN GoodHeader
        ELSE IF i = n + 2 THEN last_line
        ELSE GoodTransaction]

\* files at and above the largest number of transactions
ManyLineFiles ==
    {ManyLines(MaxTransactions, GoodFooter, 0, <<>>),
     ManyLines(MaxTransactions + 1, GoodFooter, 0, <<>>),
     ManyLines(MaxTransactions + 1, GoodTransaction, 0, <<>>),
     ManyLines(MaxTransactions + 1, GoodFooter, 3, GoodHeader),
     ManyLines(MaxTransactions + 1, GoodHeader, 3, Slice(GoodHeader, 0, 119))}

StructureInputs ==
    UNION {[1..n -> LineKinds] : n \in 0..MaxLines} \cup ManyLineFiles

InitStructure ==
    /\ file_ops = NoFileOperations
    /\ lock_config = [k \in LockKeys |-> FALSE]
    /\ disk \in {[exists |-> TRUE, lines |-> ls] : ls \in StructureInputs}
    /\ steps = 0
    /\ last = [cmd |-> "start", rt |-> "", fn |-> "", val |-> <<>>, ctr |-> <<>>,
               out |-> "ok", msg |-> "none", ret |-> NoReturn,
               fo |-> NoFileOperations, dk |-> disk, lk |-> lock_config]

\* DataValidator.validate_file_structure(lines)
ValidateStructure ==
    /\ steps = 0
    /\ \E v \in {validate_file_structure(disk.lines)} :
           last' = Last("validate_file_structure", "", "", <<>>, <<>>,
                        IF v.ok THEN "ok" ELSE "DataValidationError", v.msg, NoReturn)
    /\ steps' = steps + 1
    /\ UNCHANGED <<file_ops, lock_config, disk>>

NextStructure == ValidateStructure

SpecStructure == InitStructure /\ [][NextStructure]_vars

\* the rules of the file structure, in the order of their checks
StructureRules == <<"min_lines", "line_length", "start_end", "interior_tag", "tx_count">>

\* the rules a list of lines violates
Violated(lines) ==
    {rule \in {StructureRules[k] : k \in 1..Len(StructureRules)} :
        \/ rule = "min_lines" /\ Len(lines) < 3
        \/ rule = "line_length" /\ \E i \in 1..Len(lines) : Len(lines[i]) # LineLength
        \/ rule = "start_end"
              /\ \/ Len(lines) = 0
                 \/ ~startswith(lines[1], <<"0", "1">>)
                 \/ ~startswith(lines[Len(lines)], <<"0", "3">>)
        \/ rule = "interior_tag"
              /\ \E i \in 2..(Len(lines) - 1) : ~startswith(lines[i], <<"0", "2">>)
        \/ rule = "tx_count"
              /\ ~(Len(lines) - 2 \in 1..MaxTransactions)}

\* C13: validate_file_structure accepts a list of lines that violates no
\* rule, and for a list that violates some it raises the message of the
\* earliest violated rule in the order line count, line length, first/last
\* tag, interior tags, interior count.
FirstViolationReported ==
    last.cmd = "validate_file_structure" =>
        IF Violated(last.dk.lines) = {}
        THEN last.out = "ok" /\ last.msg = "none"
        ELSE /\ last.out = "DataValidationError"
             /\ \E k \in 1..Len(StructureRules) :
                    /\ last.msg = StructureRules[k]
                    /\ StructureRules[k] \in Violated(last.dk.lines)
                    /\ \A j \in 1..(k - 1) : StructureRules[j] \notin Violated(last.dk.lines)

\* C13 witness: a list of three lines or more violating the length rule and
\* both tag rules at once has been refused for its line length
SeveralRulesViolated ==
    /\ last.cmd = "validate_file_structure"
    /\ {"line_length", "start_end", "interior_tag"} \subseteq Violated(last.dk.lines)
    /\ "min_lines" \notin Violated(last.dk.lines)
    /\ last.msg = "line_length"

\* C14 as stated: one line of 119 characters fails with the line-length
\* violation, and any line not of 120 characters makes the validation fail.
OneShortLineFailsOnLength ==
    last.cmd = "validate_file_structure" =>
        /\ (Len(last.dk.lines) = 1 /\ Len(last.dk.lines[1]) = LineLength - 1)
               => last.out = "DataValidationError" /\ last.msg = "line_length"
        /\ (\E i \in 1..Len(last.dk.lines) : Len(last.dk.lines[i]) # LineLength)
               => last.out = "DataValidationError"

\* C14: one line of 119 characters fails with the line-count violation, not
\* with the line-length violation, and any line not of 120 characters makes
\* the validation fail whatever it holds.
OneShortLineFailsOnCount ==
    last.cmd = "validate_file_structure" =>
        /\ (Len(last.dk.lines) = 1 /\ Len(last.dk.lines[1]) = LineLength - 1)
               => last.out = "DataValidationError" /\ last.msg = "min_lines"
        /\ (\E i \in 1..Len(last.dk.lines) : Len(last.dk.lines[i]) # LineLength)
               => last.out = "DataValidationError"

\* C14 witness: a single line of 119 characters has been validated
OneShortLineValidated ==
    /\ last.cmd = "validate_file_structure"
    /\ Len(last.dk.lines) = 1
    /\ Len(last.dk.lines[1]) = LineLength - 1
    /\ last.out = "DataValidationError"

(***************************************************************************)
(* Sessions with thousands of transactions.  The file on disk is a header, *)
(* disk.count equal transaction lines and disk.footer; the session holds   *)
(* the number of its transactions, count, in place of the list.            *)
(***************************************************************************)
\* the lines file.readlines() returns for disk d
LinesOf(d) == ManyLines(d.count, d.footer, 0, <<>>)

\* session fo with its transaction list replaced by the list's length
CountOf(fo, n) ==
    [obj |-> fo.obj, header |-> fo.header, footer |-> fo.footer,
     is_loaded |-> fo.is_loaded, currency |-> fo.currency, count |-> n]

\* read_file on the lines of d: the records are built from the header, the
\* first transaction line and the footer; the other transaction lines equal
\* the first, so the loop appends one transaction for each of them
read_fileCount(d) ==
    Bind(LinesOf(d), LAMBDA lines :
        Bind(validate_and_set_currency(NewFileOperations, lines), LAMBDA c :
            IF c.err # NoError THEN [fo |-> CountOf(c.fo, 0), err |-> c.err]
            ELSE Bind(validate_file_structure(lines), LAMBDA v :
                     IF ~v.ok THEN [fo |-> CountOf(c.fo, 0),
                                    err |-> Error("FileFormatError", v.msg)]
                     ELSE Bind(BuildRecords(c.fo, <<lines[1], lines[2], lines[Len(lines)]>>),
                               LAMBDA b :
                                   [fo |-> CountOf(b.fo, IF b.fo.is_loaded THEN d.count
                                                         ELSE Len(b.fo.transactions)),
                                    err |-> b.err]))))

\* do_add_transaction on a session that holds fo.count transactions
do_add_transactionCount(fo, d, amount) ==
    IF ~fo.obj THEN Result(fo, d, "no_file_ops", "none")
    ELSE IF fo.currency = <<>> THEN Result(fo, d, "no_currency", "none")
    ELSE Bind(validate_type(StrV(amount), "float"), LAMBDA v :
        IF ~v.ok THEN Result(fo, d, "validation_error", v.msg)
        ELSE Bind(create_transaction([counter  |-> StrV(ZeroInt(fo.count + 1, 6)),
                                      amount   |-> FloatV(ParseFloat(amount).m),
                                      currency |-> StrV(fo.currency),
                                      reserved |-> StrV(NewReserved)]), LAMBDA t :
            IF ~t.ok THEN Result(fo, d, "factory_error", t.msg)
            ELSE IF fo.footer = None
            THEN Result([fo EXCEPT !.count = @ + 1], d, "crash", "attribute_error")
            ELSE Bind(update_footer(fo.footer[1], amount), LAMBDA u :
                IF ~u.ok
                THEN Result([fo EXCEPT !.count = @ + 1, !.footer = Some(u.footer)], d,
                            "footer_error", u.msg)
                ELSE IF fo.header = None
                THEN Result([fo EXCEPT !.count = @ + 1, !.footer = Some(u.footer)],
                            [d EXCEPT !.count = 0], "crash", "attribute_error")
                ELSE Result([fo EXCEPT !.count = @ + 1, !.footer = Some(u.footer)],
                            [d EXCEPT !.count = fo.count + 1,
                                      !.footer = to_fixed_width_string("footer", u.footer)],
                            "ok", "none"))))

\* numbers of transaction lines of the files on disk
TransactionCounts ==
    {0, 1, 2, MaxTransactions - 1, MaxTransactions, MaxTransactions + 1}

InitCount ==
    /\ file_ops = CountOf(NoFileOperations, 0)
    /\ lock_config = [k \in LockKeys |-> FALSE]
    /\ disk \in {[exists |-> TRUE, count |-> k, footer |-> FooterLine(Cnt(k), Amt(100, 0))] :
                     k \in TransactionCounts}
    /\ steps = 0
    /\ last = [cmd |-> "start", rt |-> "", fn |-> "", val |-> <<>>, ctr |-> <<>>,
               out |-> "ok", msg |-> "none", ret |-> NoReturn,
               fo |-> file_ops, dk |-> disk, lk |-> lock_config]

LoadCount ==
    /\ Running
    /\ \E r \in {read_fileCount(disk)} :
           /\ file_ops' = r.fo
           /\ last' = Last("load", "", "", <<>>, <<>>, r.err.type, r.err.msg, NoReturn)
    /\ steps' = steps + 1
    /\ UNCHANGED <<lock_config, disk>>

AddTransactionCount(amount) ==
    /\ Running
    /\ \E r \in {do_add_transactionCount(file_ops, disk, amount)} :
           /\ file_ops' = r.fo
           /\ disk' = r.disk
           /\ last' = Last("add_transaction", "", "", amount, <<>>, r.out, r.msg, NoReturn)
    /\ steps' = steps + 1
    /\ UNCHANGED lock_config

NextCount ==
    \/ LoadCount
    \/ \E a \in AddAmounts : AddTransactionCount(a)

SpecCount == InitCount /\ [][NextCount]_vars

\* the session with counts behaves as the session with lists: in every
\* state of Spec with a header and a footer, add_transaction on the
\* session's list and on the list's length end in the same way
CountAgreesWithList ==
    (file_ops.header # None /\ file_ops.footer # None /\ disk.exists) =>
        \A a \in AddAmounts :
            \A r \in {do_add_transaction(file_ops, disk, a)} :
                \A rc \in {do_add_transactionCount(
                               CountOf(file_ops, Len(file_ops.transactions)),
                               [exists |-> TRUE, count |-> 0, footer |-> <<>>], a)} :
                    /\ rc.fo = CountOf(r.fo, Len(r.fo.transactions))
                    /\ rc.out = r.out
                    /\ rc.msg = r.msg

\* C11: in every Loaded state, after any number of add_transaction commands,
\* the session holds between 1 and 20000 transactions.
CountWithinBounds ==
    Loaded => 1 <= file_ops.count /\ file_ops.count <= MaxTransactions

(***************************************************************************)
(* One FileOperations object read several times: read_file is called on    *)
(* the session as the earlier call left it, with the file d then on disk   *)
(***************************************************************************)
InitSession ==
    /\ file_ops = NewFileOperations
    /\ lock_config = [k \in LockKeys |-> FALSE]
    /\ disk \in InitialDisks
    /\ steps = 0
    /\ last = [cmd |-> "start", rt |-> "", fn |-> "", val |-> <<>>, ctr |-> <<>>,
               out |-> "ok", msg |-> "none", ret |-> NoReturn,
               fo |-> file_ops, dk |-> disk, lk |-> lock_config]

\* self.read_file() with the file d on disk
ReadFile(d) ==
    /\ steps < MaxSteps
    /\ \E r \in {read_file(file_ops, d)} :
           /\ file_ops' = r.fo
           /\ last' = Last("read_file", "", "", <<>>, <<>>, r.err.type, r.err.msg, NoReturn)
    /\ disk' = d
    /\ steps' = steps + 1
    /\ UNCHANGED lock_config

NextSession == \E d \in InitialDisks : ReadFile(d)

SpecSession == InitSession /\ [][NextSession]_vars

\* C21: after a successful read_file the header, the transaction list (one
\* transaction for each interior line of the file, in the file's order) and
\* the footer of the session are those a new session gets from the file just
\* read, whatever the session held before.
ReadBuildsFresh ==
    (last.cmd = "read_file" /\ last.out = "ok")
        => /\ Len(file_ops.transactions) = Len(disk.lines) - 2
           /\ file_ops = read_file(NewFileOperations, disk).fo

\* C22: a successful add_transaction (valid amount, currency set) grows the
\* transaction list by exactly one element and leaves on disk the lines of
\* the header, the transactions and the footer the session holds after it.
AddSavesSession ==
    (last.cmd = "add_transaction" /\ last.out = "ok")
        => /\ last.val \in ValidAmounts
           /\ last.fo.currency # <<>>
           /\ Len(file_ops.transactions) = Len(last.fo.transactions) + 1
           /\ disk.exists
           /\ disk.lines = Serialize(file_ops)

\* C22 witness: a successful add_transaction has rewritten the file
AddRewroteFile ==
    /\ last.cmd = "add_transaction"
    /\ last.out = "ok"
    /\ disk.lines # last.dk.lines
    /\ Len(disk.lines) = Len(last.dk.lines) + 1

\* C23: for a <<record type, field>> of the lock configuration, lock sets
\* its flag to true and unlock sets it to false whatever it was, and every
\* other flag keeps its value; for one that is absent no flag changes and no
\* entry is added.
LockChangesOnlyItsFlag ==
    last.cmd \in {"lock", "unlock"} =>
        /\ DOMAIN lock_config = DOMAIN last.lk
        /\ \A k \in DOMAIN last.lk :
               lock_config[k] = IF k = <<last.rt, last.fn>> THEN last.cmd = "lock"
                                ELSE last.lk[k]
        /\ <<last.rt, last.fn>> \notin DOMAIN last.lk => lock_config = last.lk

\* C23 witness: unlock has cleared a flag that was set, and other flags are
\* still set
UnlockClearedFlag ==
    /\ last.cmd = "unlock"
    /\ <<last.rt, last.fn>> \in DOMAIN last.lk
    /\ last.lk[<<last.rt, last.fn>>]
    /\ ~lock_config[<<last.rt, last.fn>>]
    /\ \E k \in DOMAIN lock_config : lock_config[k]

\* C24: after a successful set_field on an unlocked header field with value
\* v, get_field on that field returns v right-justified to the field's width
\* and the file holds the session's lines, the new header line first.
SetHeaderFieldReadBack ==
    (last.cmd = "set_field" /\ last.rt = "header" /\ last.out = "ok")
        => /\ ~IsLockedIn(last.lk, "header", last.fn)
           /\ get_field_value(file_ops, "header", last.fn, <<>>)
                  = [kind |-> "value",
                     s |-> rjust(last.val, Meta.header[last.fn].width, " ")]
           /\ disk.lines = Serialize(file_ops)
           /\ disk.lines[1]
                  = to_fixed_width_string("header",
                        [last.fo.header[1] EXCEPT
                             ![last.fn] = rjust(last.val, Meta.header[last.fn].width, " ")])

\* C24 witness: a set_field has given the header a new name and rewritten
\* the first line of the file
HeaderNameChanged ==
    /\ last.cmd = "set_field"
    /\ last.rt = "header"
    /\ last.fn = "name"
    /\ last.out = "ok"
    /\ file_ops.header # last.fo.header
    /\ disk.lines[1] # last.dk.lines[1]

(***************************************************************************)
(* validate_fixed_width on its own: last.val is the value and last.ctr the *)
(* width it is given, last.ret the text it returns                         *)
(***************************************************************************)
MaxText == 3

\* the texts of up to MaxText characters over letters, spaces, digits, signs
Texts == UNION {[1..n -> {"a", " ", "0", "-", "."}] : n \in 0..MaxText}

\* str, int and float values
WidthValues ==
    {StrV(t) : t \in Texts}
    \cup {IntV(n) : n \in {0, 7, 42, 999, 1000, 0 - 5, 0 - 42}}
    \cup {FloatV(m) : m \in {Money(0, 0), Money(0, 50), Money(5, 0), Money(12, 34),
                             Money(999, 99), Money(0 - 5, 0), Money(0 - 1, 50)}}

Widths == {1, 2, 3, 4, 6}

InitWidth ==
    /\ file_ops = NoFileOperations
    /\ lock_config = [k \in LockKeys |-> FALSE]
    /\ disk = [exists |-> FALSE, lines |-> <<>>]
    /\ steps = 0
    /\ \E v \in WidthValues, w \in Widths :
           last = [cmd |-> "start", rt |-> "", fn |-> "", val |-> v, ctr |-> w,
                   out |-> "ok", msg |-> "none", ret |-> NoReturn,
                   fo |-> file_ops, dk |-> disk, lk |-> lock_config]

\* DataValidator.validate_fixed_width(value, width)
Format ==
    /\ last.cmd = "start"
    /\ \E r \in {validate_fixed_width(last.val, last.ctr)} :
           last' = [last EXCEPT !.cmd = "validate_fixed_width",
                                !.out = IF r.ok THEN "ok" ELSE "DataValidationError",
                                !.msg = r.msg,
                                !.ret = [kind |-> IF r.ok THEN "value" ELSE "none", s |-> r.s]]
    /\ steps' = steps + 1
    /\ UNCHANGED <<file_ops, lock_config, disk>>

\* validate_fixed_width on the text an earlier call returned
FormatAgain ==
    /\ last.cmd = "validate_fixed_width"
    /\ last.out = "ok"
    /\ steps < 2
    /\ \E r \in {validate_fixed_width(StrV(last.ret.s), last.ctr)} :
           last' = [last EXCEPT !.val = StrV(last.ret.s),
                                !.out = IF r.ok THEN "ok" ELSE "DataValidationError",
                                !.msg = r.msg,
                                !.ret = [kind |-> IF r.ok THEN "value" ELSE "none", s |-> r.s]]
    /\ steps' = steps + 1
    /\ UNCHANGED <<file_ops, lock_config, disk>>

NextWidth == Format \/ FormatAgain

SpecWidth == InitWidth /\ [][NextWidth]_vars

\* C25: whenever validate_fixed_width(v, w) returns a text s,
\* validate_fixed_width(s, w) succeeds and returns s.
FixedWidthIdempotent ==
    (last.cmd = "validate_fixed_width" /\ last.out = "ok")
        => /\ Len(last.ret.s) = last.ctr
           /\ validate_fixed_width(StrV(last.ret.s), last.ctr)
                  = [ok |-> TRUE, msg |-> "none", s |-> last.ret.s]
           /\ steps = 2 => last.ret.s = last.val.s

\* C25 witness: a number has been formatted and the text formatted again
NumberFormattedTwice ==
    /\ last.cmd = "validate_fixed_width"
    /\ steps = 2
    /\ last.out = "ok"
    /\ last.val.t = "str"
    /\ \E i \in 1..Len(last.ret.s) : last.ret.s[i] = "."
    /\ last.ret.s[1] = "0"

(***************************************************************************)
(* validate_type on its own: last.val is the value and last.rt the         *)
(* expected type it is given                                               *)
(***************************************************************************)
\* str, int and float values, among them negative ones
TypeValues ==
    {StrV(t) : t \in Texts \cup {<<"-", "0", ".", "5">>, <<"1", "2", ".", "5">>}}
    \cup {IntV(n) : n \in {0, 7, 0 - 1, 0 - 7}}
    \cup {FloatV(m) : m \in {Money(0, 0), Money(0, 50), Money(7, 25), Money(0 - 1, 50),
                             Money(0 - 1, 0), Money(0 - 2, 50), Money(0 - 7, 0)}}

InitType ==
    /\ file_ops = NoFileOperations
    /\ lock_config = [k \in LockKeys |-> FALSE]
    /\ disk = [exists |-> FALSE, lines |-> <<>>]
    /\ steps = 0
    /\ \E v \in TypeValues, t \in {"int", "float", "str"} :
           last = [cmd |-> "start", rt |-> t, fn |-> "", val |-> v, ctr |-> <<>>,
                   out |-> "ok", msg |-> "none", ret |-> NoReturn,
                   fo |-> file_ops, dk |-> disk, lk |-> lock_config]

\* DataValidator.validate_type(value, expected_type)
CheckType ==
    /\ last.cmd = "start"
    /\ \E r \in {validate_type(last.val, last.rt)} :
           last' = [last EXCEPT !.cmd = "validate_type",
                                !.out = IF r.ok THEN "ok" ELSE "DataValidationError",
                                !.msg = r.msg]
    /\ steps' = steps + 1
    /\ UNCHANGED <<file_ops, lock_config, disk>>

NextType == CheckType

SpecType == InitType /\ [][NextType]_vars

\* value v can be read as a number of the expected type: int(v) or float(v)
\* does not fail
ParsesAs(v, expected_type) ==
    \/ v.t \in {"int", "float"}
    \/ v.t = "str" /\ expected_type = "float" /\ ParseFloat(v.s).ok
    \/ v.t = "str" /\ expected_type = "int" /\ ParseInt(v.s).ok

\* the number v stands for is below zero
IsNegative(v) ==
    IF v.t = "str" THEN ParseFloat(v.s).ok /\ MNeg(ParseFloat(v.s).m)
    ELSE MNeg(Money(v.u, v.c))

\* C26: with expected type int or float, validate_type raises a validation
\* error for every value that does not parse as a number or that is
\* negative, and returns normally for every other value.
NegativeOrUnparsedRejected ==
    (last.cmd = "validate_type" /\ last.rt \in {"int", "float"})
        => (last.out = "DataValidationError"
                <=> (~ParsesAs(last.val, last.rt) \/ IsNegative(last.val)))

\* C27: a successful set_field on the amount of the transaction with a given
\* counter, from old amount o to new amount n >= 0, leaves that transaction
\* with amount n in 12 characters, zero-padded, with 2 fraction digits, the
\* footer with control_sum equal to the control sum before - o + n, and
\* total_counter, the header and every other transaction as they were.
AmountEditRecalculates ==
    (last.cmd = "set_field" /\ last.rt = "transaction" /\ last.fn = "amount"
        /\ last.out = "ok")
        => \E i \in 1..Len(last.fo.transactions) :
               /\ i = FindTransaction(last.fo.transactions, FormatCounter(last.ctr))
               /\ ~MNeg(Amount(last.val))
               /\ file_ops.transactions
                      = [last.fo.transactions EXCEPT
                             ![i].amount = ZeroFixed2(Amount(last.val), 12)]
               /\ ControlSum(file_ops)
                      = MAdd(MSub(ControlSum(last.fo), Amount(last.fo.transactions[i].amount)),
                             Amount(last.val))
               /\ Len(file_ops.footer[1].control_sum) = 12
               /\ file_ops.footer[1].total_counter = last.fo.footer[1].total_counter
               /\ file_ops.header = last.fo.header

\* C27 witness: the amount of the second of several transactions has been
\* changed and the control sum with it
SecondAmountEdited ==
    /\ last.cmd = "set_field"
    /\ last.rt = "transaction"
    /\ last.fn = "amount"
    /\ last.out = "ok"
    /\ Len(file_ops.transactions) >= 2
    /\ file_ops.transactions[2].amount # last.fo.transactions[2].amount
    /\ file_ops.footer[1].control_sum # last.fo.footer[1].control_sum

\* C28: while the session is not Loaded, set_field and add_transaction
\* change no record of the session and do not write to the file, and the
\* file is never left without a footer line.
NotLoadedChangesNothing ==
    /\ (last.cmd \in {"set_field", "add_transaction"} /\ ~last.fo.is_loaded)
           => /\ file_ops.header = last.fo.header
              /\ file_ops.transactions = last.fo.transactions
              /\ file_ops.footer = last.fo.footer
              /\ disk = last.dk
    /\ (disk.exists /\ disk # last.dk)
           => /\ disk.lines # <<>>
              /\ startswith(disk.lines[Len(disk.lines)], <<"0", "3">>)

\* C29: add_transaction leaves the header and every transaction the session
\* had, in their order, the new one coming last; set_field on a header field
\* leaves the transactions and the footer; set_field on a transaction amount
\* leaves the header and every transaction but the one with the counter.
CommandsKeepTheRest ==
    /\ last.cmd = "add_transaction"
           => /\ file_ops.header = last.fo.header
              /\ Len(file_ops.transactions) \in
                     {Len(last.fo.transactions), Len(last.fo.transactions) + 1}
              /\ \A i \in 1..Len(last.fo.transactions) :
                     file_ops.transactions[i] = last.fo.transactions[i]
    /\ (last.cmd = "set_field" /\ last.rt = "header")
           => /\ file_ops.transactions = last.fo.transactions
              /\ file_ops.footer = last.fo.footer
    /\ (last.cmd = "set_field" /\ last.rt = "transaction" /\ last.fn = "amount")
           => /\ file_ops.header = last.fo.header
              /\ Len(file_ops.transactions) = Len(last.fo.transactions)
              /\ \A i \in 1..Len(file_ops.transactions) :
                     i # FindTransaction(last.fo.transactions, FormatCounter(last.ctr))
                         => file_ops.transactions[i] = last.fo.transactions[i]

\* C29 witness: a transaction has been added after two others
AddedAfterTwo ==
    /\ last.cmd = "add_transaction"
    /\ Len(last.fo.transactions) >= 2
    /\ Len(file_ops.transactions) = Len(last.fo.transactions) + 1
    /\ file_ops.transactions[1] # file_ops.transactions[2]

====
